---------------------------- MODULE Spec2Model ----------------------------
(***************************************************************************)
(* Model of the streamgate source-patch scripts (src/scripts/*.py).        *)
(*                                                                         *)
(* A document is a sequence of tokens.  A token stands for a run of        *)
(* characters that the scripts' patterns treat as a unit: the newline, a   *)
(* tab, a brace, the text of a block-opening test, the text of a           *)
(* statement an erase rule names, a string literal, a comma, ...           *)
(* str.split, str.join, str.count, the `in` test and re.sub are modelled   *)
(* on token sequences by what they do on the characters.                   *)
(***************************************************************************)
EXTENDS Integers, Sequences, FiniteSets, TLC

VARIABLES
    pc,           \* position of the running script
    \* one block scan (remove_rate_limit_blocks, remove_cache_blocks)
    lines,        \* content.split('\n') of the running block scan
    idx,          \* 1-based index of the line the `for line in lines` loop is at
    new_lines,    \* new_lines of the running block scan
    skip,         \* skip_rate_limit / skip_cache
    brace_count,  \* brace_count
    kind,         \* which block scan runs: "rate_limit" | "cache"
    result,       \* the value the function returned
    \* one file being fixed (fix_handler_file, fix_file, fix_cmd_file)
    disk,         \* the text the file holds on disk
    original,     \* original / original_content
    content,      \* content
    run,          \* 1 in the first run of the script over the file, 2 in the second
    ret,          \* the values fix_handler_file / fix_file returned, one per finished run
    \* one re.sub of fix_file with fix_logger_call (fix-zap-comprehensive.py)
    input_call,   \* the logging call the file was written with (never read by the script)
    scan_pos,     \* where in content re.sub looks for the next match
    out,          \* the text re.sub has produced so far
    logger_call,  \* logger_call
    message,      \* message
    rest,         \* rest
    current_pos,  \* current_pos, 1-based
    pairs,        \* pairs
    \* one run of a script over its worklist (__main__ / main)
    driver,       \* which script runs
    files,        \* files / cmd_files / go_files: the worklist, paths in listed order
    fidx,         \* 1-based index of the entry the `for` loop of the script is at
    fs,           \* the file system: for each path its text and what opening it does
    outcome,      \* for each path what the run has done with it so far
    delta,        \* for each path whether the transformed text differed from the text read
    wrote,        \* for each path the text f.write was last called with
    fixed,        \* fixed / modified_count
    exit_code     \* the exit status of the process, -1 while it runs

scanVars == <<lines, idx, new_lines, skip, brace_count, kind, result>>
fileVars == <<disk, original, run, ret>>
callVars == <<input_call, scan_pos, out, logger_call, message, rest, current_pos, pairs>>
driverVars == <<driver, files, fidx, fs, outcome, delta, wrote, fixed, exit_code>>
vars == <<pc, content, scanVars, fileVars, callVars, driverVars>>

---------------------------------------------------------------------------
(* The variables of a part of the scripts that a specification does not run *)

ScanIdle ==
    /\ lines = <<>>
    /\ idx = 1
    /\ new_lines = <<>>
    /\ skip = FALSE
    /\ brace_count = 0
    /\ kind = "rate_limit"
    /\ result = <<>>

FileIdle ==
    /\ disk = <<>>
    /\ original = <<>>
    /\ run = 0
    /\ ret = <<>>

DriverIdle ==
    /\ driver = "none"
    /\ files = <<>>
    /\ fidx = 1
    /\ fs = <<>>
    /\ outcome = <<>>
    /\ delta = <<>>
    /\ wrote = <<>>
    /\ fixed = 0
    /\ exit_code = -1

CallIdle ==
    /\ input_call = [method |-> "Info", message |-> <<>>, pairs |-> <<>>, tail |-> <<>>]
    /\ scan_pos = 1
    /\ out = <<>>
    /\ logger_call = <<>>
    /\ message = <<>>
    /\ rest = <<>>
    /\ current_pos = 1
    /\ pairs = <<>>

---------------------------------------------------------------------------
(* Tokens *)

NL == "\n"
TAB == "\t"
SP == " "
LB == "{"
RB == "}"
RLH == "if !h.rateLimiter.Allow("
RLP == "if !p.rateLimiter.Allow("
CACHEGET == "if cached, ok := h.cache.Get("
STMT == "x"

---------------------------------------------------------------------------
(* Bounds of the checked inputs *)

MaxLines == 4

---------------------------------------------------------------------------
(* str helpers *)

\* line.count(t)
RECURSIVE Count(_, _)
Count(s, t) ==
    IF s = <<>> THEN 0
    ELSE (IF Head(s) = t THEN 1 ELSE 0) + Count(Tail(s), t)

\* t in s
Contains(s, t) == \E i \in 1..Len(s) : s[i] = t

\* content.split('\n'): always at least one (possibly empty) line
RECURSIVE Split(_)
Split(s) ==
    IF \A i \in 1..Len(s) : s[i] # NL THEN <<s>>
    ELSE LET k == CHOOSE i \in 1..Len(s) :
                      s[i] = NL /\ \A j \in 1..(i-1) : s[j] # NL
         IN  <<SubSeq(s, 1, k-1)>> \o Split(SubSeq(s, k+1, Len(s)))

\* '\n'.join(ls)
RECURSIVE Join(_)
Join(ls) ==
    IF ls = <<>> THEN <<>>
    ELSE IF Len(ls) = 1 THEN ls[1]
    ELSE ls[1] \o <<NL>> \o Join(Tail(ls))

\* line.count('{') - line.count('}')
Balance(line) == Count(line, LB) - Count(line, RB)

---------------------------------------------------------------------------
(* The block scans of fix-all-handlers.py *)

\* a variant of the test of line 15 without its second operand
IsOpener_HOnly(k, line) ==
    IF k = "rate_limit" THEN Contains(line, RLH)
    ELSE Contains(line, CACHEGET)

\* the test that opens a block: line 15 (rate limit), line 36 (cache)
IsOpener(k, line) ==
    IF k = "rate_limit" THEN Contains(line, RLH) \/ Contains(line, RLP)
    ELSE Contains(line, CACHEGET)

\* One iteration of `for line in lines` (lines 14-24 / 35-45), on the scan
\* state st = [skip, brace_count, new_lines].
ScanBody(k, st, line) ==
    IF IsOpener(k, line)
    THEN [skip |-> TRUE, brace_count |-> Balance(line), new_lines |-> st.new_lines]
    ELSE IF st.skip
    THEN LET bc == st.brace_count + Balance(line)
         IN  [skip |-> ~(bc <= 0), brace_count |-> bc, new_lines |-> st.new_lines]
    ELSE [skip |-> st.skip, brace_count |-> st.brace_count,
          new_lines |-> Append(st.new_lines, line)]

ScanInit == [skip |-> FALSE, brace_count |-> 0, new_lines |-> <<>>]

RECURSIVE ScanFrom(_, _, _)
ScanFrom(k, st, ls) ==
    IF ls = <<>> THEN st ELSE ScanFrom(k, ScanBody(k, st, Head(ls)), Tail(ls))

\* remove_rate_limit_blocks(content), as a function
remove_rate_limit_blocks(c) == Join(ScanFrom("rate_limit", ScanInit, Split(c)).new_lines)

\* remove_cache_blocks(content), as a function
remove_cache_blocks(c) == Join(ScanFrom("cache", ScanInit, Split(c)).new_lines)

---------------------------------------------------------------------------
(* Input documents of the block-scan specification *)

StripShapes ==
    { <<>>,
      <<STMT>>,
      <<STMT, LB>>,
      <<RB>>,
      <<TAB, RLH, STMT, LB>>,
      <<RLP, STMT, LB, STMT, RB>>,
      <<CACHEGET, STMT, LB>> }

RECURSIVE SeqsUpTo(_, _)
SeqsUpTo(S, n) ==
    IF n = 0 THEN { <<>> }
    ELSE LET shorter == SeqsUpTo(S, n - 1)
         IN  shorter \cup { Append(s, x) : s \in shorter, x \in S }

StripDocs == { Join(ls) : ls \in SeqsUpTo(StripShapes, MaxLines) \ { <<>> } }

---------------------------------------------------------------------------
(* Specification SpecStrip: one call of remove_rate_limit_blocks or        *)
(* remove_cache_blocks, the loop taken one line at a time.                 *)

InitStrip ==
    /\ DriverIdle
    /\ pc = "strip_split"
    /\ content \in StripDocs
    /\ kind \in {"rate_limit", "cache"}
    /\ lines = <<>>
    /\ idx = 1
    /\ new_lines = <<>>
    /\ skip = FALSE
    /\ brace_count = 0
    /\ result = <<>>
    /\ FileIdle
    /\ CallIdle

\* lines 9-12 / 30-33
StripSplit ==
    /\ pc = "strip_split"
    /\ lines' = Split(content)
    /\ new_lines' = ScanInit.new_lines
    /\ skip' = ScanInit.skip
    /\ brace_count' = ScanInit.brace_count
    /\ idx' = 1
    /\ pc' = "strip_loop"
    /\ UNCHANGED <<driverVars, content, kind, result, fileVars, callVars>>

ScanState == [skip |-> skip, brace_count |-> brace_count, new_lines |-> new_lines]

StepTo(st) ==
    /\ skip' = st.skip
    /\ brace_count' = st.brace_count
    /\ new_lines' = st.new_lines
    /\ idx' = idx + 1
    /\ UNCHANGED <<driverVars, pc, content, lines, kind, result, fileVars, callVars>>

\* lines 15-18 / 36-39: the line opens a block
ScanOpener ==
    /\ pc = "strip_loop"
    /\ idx <= Len(lines)
    /\ IsOpener(kind, lines[idx])
    /\ StepTo(ScanBody(kind, ScanState, lines[idx]))

\* lines 19-23 / 40-44: a line inside a block being erased
ScanSkip ==
    /\ pc = "strip_loop"
    /\ idx <= Len(lines)
    /\ ~IsOpener(kind, lines[idx])
    /\ skip
    /\ StepTo(ScanBody(kind, ScanState, lines[idx]))

\* line 24 / 45: a line that is kept
ScanKeep ==
    /\ pc = "strip_loop"
    /\ idx <= Len(lines)
    /\ ~IsOpener(kind, lines[idx])
    /\ ~skip
    /\ StepTo(ScanBody(kind, ScanState, lines[idx]))

\* a variant of the return that gives the input back when a block is open
\* at the end of the input
StripReturn_KeepsOpenBlock ==
    /\ pc = "strip_loop"
    /\ idx > Len(lines)
    /\ result' = IF skip THEN Join(lines) ELSE Join(new_lines)
    /\ pc' = "strip_done"
    /\ UNCHANGED <<driverVars, content, lines, idx, new_lines, skip, brace_count, kind, fileVars, callVars>>

\* line 26 / 47
StripReturn ==
    /\ pc = "strip_loop"
    /\ idx > Len(lines)
    /\ result' = Join(new_lines)
    /\ pc' = "strip_done"
    /\ UNCHANGED <<driverVars, content, lines, idx, new_lines, skip, brace_count, kind, fileVars, callVars>>

NextStrip == StripSplit \/ ScanOpener \/ ScanSkip \/ ScanKeep \/ StripReturn

SpecStrip == InitStrip /\ [][NextStrip]_vars

---------------------------------------------------------------------------
(* The scan of fix_file of fix-handlers-v2.py (lines 46-68): both kinds of *)
(* block in one loop, with one skip flag and one brace_count.              *)

\* One iteration of `for line in lines` (lines 51-66)
V2Body(st, line) ==
    IF IsOpener("rate_limit", line)                                  \* 52-55
    THEN [skip |-> TRUE, brace_count |-> Balance(line), new_lines |-> st.new_lines]
    ELSE IF st.skip                                                  \* 56-60
    THEN LET bc == st.brace_count + Balance(line)
         IN  [skip |-> ~(bc <= 0), brace_count |-> bc, new_lines |-> st.new_lines]
    ELSE IF IsOpener("cache", line)                                  \* 62-65
    THEN [skip |-> TRUE, brace_count |-> Balance(line), new_lines |-> st.new_lines]
    ELSE [skip |-> st.skip, brace_count |-> st.brace_count,          \* 66
          new_lines |-> Append(st.new_lines, line)]

(* Specification SpecV2: lines 46-68 of fix_file on the content it has at  *)
(* line 46, the loop taken one line at a time.                             *)

InitV2 ==
    /\ DriverIdle
    /\ pc = "v2_split"
    /\ content \in StripDocs
    /\ kind = "v2"
    /\ lines = <<>>
    /\ idx = 1
    /\ new_lines = <<>>
    /\ skip = FALSE
    /\ brace_count = 0
    /\ result = <<>>
    /\ FileIdle
    /\ CallIdle

\* lines 46-49
V2Split ==
    /\ pc = "v2_split"
    /\ lines' = Split(content)
    /\ new_lines' = <<>>
    /\ skip' = FALSE
    /\ brace_count' = 0
    /\ idx' = 1
    /\ pc' = "v2_loop"
    /\ UNCHANGED <<driverVars, content, kind, result, fileVars, callVars>>

\* lines 52-55: the line opens a rate-limit block
V2RateOpener ==
    /\ pc = "v2_loop"
    /\ idx <= Len(lines)
    /\ IsOpener("rate_limit", lines[idx])
    /\ StepTo(V2Body(ScanState, lines[idx]))

\* lines 56-60: a line inside a block being erased
V2Skip ==
    /\ pc = "v2_loop"
    /\ idx <= Len(lines)
    /\ ~IsOpener("rate_limit", lines[idx])
    /\ skip
    /\ StepTo(V2Body(ScanState, lines[idx]))

\* lines 62-65: the line opens a cache block
V2CacheOpener ==
    /\ pc = "v2_loop"
    /\ idx <= Len(lines)
    /\ ~IsOpener("rate_limit", lines[idx])
    /\ ~skip
    /\ IsOpener("cache", lines[idx])
    /\ StepTo(V2Body(ScanState, lines[idx]))

\* line 66: a line that is kept
V2Keep ==
    /\ pc = "v2_loop"
    /\ idx <= Len(lines)
    /\ ~IsOpener("rate_limit", lines[idx])
    /\ ~skip
    /\ ~IsOpener("cache", lines[idx])
    /\ StepTo(V2Body(ScanState, lines[idx]))

\* line 68
V2Join ==
    /\ pc = "v2_loop"
    /\ idx > Len(lines)
    /\ result' = Join(new_lines)
    /\ pc' = "v2_done"
    /\ UNCHANGED <<driverVars, content, lines, idx, new_lines, skip, brace_count, kind, fileVars, callVars>>

NextV2 == V2Split \/ V2RateOpener \/ V2Skip \/ V2CacheOpener \/ V2Keep \/ V2Join

SpecV2 == InitV2 /\ [][NextV2]_vars

(* Specification SpecScans: any one of the three block scans *)

InitScans == InitStrip \/ InitV2

NextScans == NextStrip \/ NextV2

SpecScans == InitScans /\ [][NextScans]_vars

---------------------------------------------------------------------------
(* re.sub(pattern, '', content) on token sequences.                        *)
(*                                                                         *)
(* A pattern is a sequence of items: "ws+" is \s+ (one or more whitespace  *)
(* tokens), "tok" one token of a set (a literal text), "opt" an optional   *)
(* token of a set (`,?`), "rest" is [^\n]+ (one or more tokens that are    *)
(* not the newline).  In every pattern of the scripts \s+ is followed by a *)
(* text that starts with no whitespace and [^\n]+ by \n, so the greedy     *)
(* match of either is the whole run and nothing is left to backtracking.   *)

WS == {NL, TAB, SP}

WsPlus == [t |-> "ws+", set |-> {}]
Rest == [t |-> "rest", set |-> {}]
Tok(S) == [t |-> "tok", set |-> S]
Opt(S) == [t |-> "opt", set |-> S]

\* the index after the longest run of tokens of s from i on that satisfy
\* "is in S" (inS = TRUE) or "is not in S" (inS = FALSE)
RECURSIVE RunEnd(_, _, _, _)
RunEnd(s, i, S, inS) ==
    IF i <= Len(s) /\ ((s[i] \in S) = inS) THEN RunEnd(s, i + 1, S, inS) ELSE i

\* re.match(pat, s[i:]): the index after the match, 0 when there is none
RECURSIVE MatchAt(_, _, _)
MatchAt(pat, s, i) ==
    IF pat = <<>> THEN i
    ELSE LET it == Head(pat)
         IN  IF it.t = "ws+"
             THEN LET e == RunEnd(s, i, WS, TRUE)
                  IN  IF e = i THEN 0 ELSE MatchAt(Tail(pat), s, e)
             ELSE IF it.t = "rest"
             THEN LET e == RunEnd(s, i, {NL}, FALSE)
                  IN  IF e = i THEN 0 ELSE MatchAt(Tail(pat), s, e)
             ELSE IF it.t = "tok"
             THEN IF i <= Len(s) /\ s[i] \in it.set
                  THEN MatchAt(Tail(pat), s, i + 1) ELSE 0
             ELSE \* "opt"
                  LET with == IF i <= Len(s) /\ s[i] \in it.set
                              THEN MatchAt(Tail(pat), s, i + 1) ELSE 0
                  IN  IF with > 0 THEN with ELSE MatchAt(Tail(pat), s, i)

\* re.sub(pat, '', s): every leftmost non-overlapping match removed
RECURSIVE ReSubFrom(_, _, _)
ReSubFrom(pat, s, i) ==
    IF i > Len(s) THEN <<>>
    ELSE LET e == MatchAt(pat, s, i)
         IN  IF e > i THEN ReSubFrom(pat, s, e)
             ELSE <<s[i]>> \o ReSubFrom(pat, s, i + 1)

ReSub(pat, s) == ReSubFrom(pat, s, 1)

---------------------------------------------------------------------------
(* The erase rules of fix_handler_file (fix-all-handlers.py, lines 58-90)  *)

\* the texts the patterns of lines 59-90 name
HandlerText ==
    [ SECIMPORT |-> "\"streamgate/pkg/security\"",
      OPTIMPORT |-> "\"streamgate/pkg/optimization\"",
      TIMEIMPORT |-> "\"time\"",
      RLFIELD |-> "rateLimiter *security.RateLimiter",
      ALFIELD |-> "auditLogger *security.AuditLogger",
      CACHEFIELD |-> "cache *optimization.LocalCache",
      LCFIELD |-> "localCache *optimization.LocalCache",
      RLNEW |-> "rateLimiter: security.NewRateLimiter(cfg)",
      ALNEW |-> "auditLogger: security.NewAuditLogger(cfg)",
      CACHENEW |-> "cache: optimization.NewLocalCache(cfg)",
      LCNEW |-> "localCache: optimization.NewLocalCache(cfg)",
      STARTTIME |-> "startTime := time.Now()",
      CLIENTIP |-> "clientIP := r.RemoteAddr",
      AUDITH |-> "h.auditLogger.LogEvent(",
      AUDITP |-> "p.auditLogger.LogEvent(",
      TIMERH |-> "h.metricsCollector.RecordTimer(name, time.Since(startTime)",
      TIMERP |-> "p.metricsCollector.RecordTimer(name, time.Since(startTime)",
      CSTOPH |-> "h.cache.Stop()",
      CSTOPP |-> "p.cache.Stop()",
      CSETH |-> "h.cache.Set(",
      CSETP |-> "p.cache.Set(",
      IFPCACHE |-> "if p.cache != nil " ]
COMMA == ","

\* \s+ <text> \n
EraseLine(S) == <<WsPlus, Tok(S), Tok({NL})>>
\* \s+ <text> ,? \n
EraseInit(S) == <<WsPlus, Tok(S), Opt({COMMA}), Tok({NL})>>
\* \s+ <text> [^\n]+ \n
EraseToEol(S) == <<WsPlus, Tok(S), Rest, Tok({NL})>>

\* the re.sub calls of lines 59-90, in their order
HandlerRules ==
    << EraseLine({HandlerText.SECIMPORT}),          \* 59
       EraseLine({HandlerText.OPTIMPORT}),          \* 60
       EraseLine({HandlerText.TIMEIMPORT}),         \* 61
       EraseLine({HandlerText.RLFIELD}),            \* 64
       EraseLine({HandlerText.ALFIELD}),            \* 65
       EraseLine({HandlerText.CACHEFIELD}),         \* 66
       EraseLine({HandlerText.LCFIELD}),            \* 67
       EraseInit({HandlerText.RLNEW}),              \* 70
       EraseInit({HandlerText.ALNEW}),              \* 71
       EraseInit({HandlerText.CACHENEW}),           \* 72
       EraseInit({HandlerText.LCNEW}),              \* 73
       EraseLine({HandlerText.STARTTIME}),          \* 76
       EraseLine({HandlerText.CLIENTIP}),           \* 77
       EraseToEol({HandlerText.AUDITH, HandlerText.AUDITP}),    \* 80
       EraseToEol({HandlerText.TIMERH, HandlerText.TIMERP}),    \* 83
       EraseLine({HandlerText.CSTOPH, HandlerText.CSTOPP}),     \* 86
       EraseToEol({HandlerText.CSETH, HandlerText.CSETP}),      \* 87
       <<WsPlus, Tok({HandlerText.IFPCACHE}), Tok({LB}), WsPlus, Tok({HandlerText.CSTOPP}),
         WsPlus, Tok({RB}), Tok({NL})>> \* 90
    >>

\* content after the re.sub calls rules[1], rules[2], ... in turn
RECURSIVE ApplyRules(_, _)
ApplyRules(rules, c) ==
    IF rules = <<>> THEN c ELSE ApplyRules(Tail(rules), ReSub(Head(rules), c))

\* lines 58-90 of fix_handler_file
HandlerInline(c) == ApplyRules(HandlerRules, c)

\* lines 58-94 of fix_handler_file: what it does to the text it read
HandlerPipeline(c) == remove_cache_blocks(remove_rate_limit_blocks(HandlerInline(c)))

---------------------------------------------------------------------------
(* Specification SpecHandler: fix_handler_file on one file, run twice in   *)
(* succession (the script started a second time on its own output).        *)

MaxDocLines == 5

HandlerShapes ==
    { <<>>,
      <<STMT>>,
      <<TAB, HandlerText.STARTTIME>>,
      <<TAB, HandlerText.TIMEIMPORT>>,
      <<RLH, STMT, LB>>,
      <<RB>> }

HandlerDocs == { Join(ls) : ls \in SeqsUpTo(HandlerShapes, MaxDocLines) \ { <<>> } }

InitHandler ==
    /\ DriverIdle
    /\ pc = "h_open"
    /\ disk \in HandlerDocs
    /\ original = <<>>
    /\ content = <<>>
    /\ run = 1
    /\ ret = <<>>
    /\ ScanIdle
    /\ CallIdle

\* lines 53-56
HandlerRead ==
    /\ pc = "h_open"
    /\ content' = disk
    /\ original' = disk
    /\ pc' = "h_inline"
    /\ UNCHANGED <<driverVars, disk, run, ret, scanVars, callVars>>

\* lines 58-90
HandlerApplyInline ==
    /\ pc = "h_inline"
    /\ content' = HandlerInline(content)
    /\ pc' = "h_rate_limit"
    /\ UNCHANGED <<driverVars, fileVars, scanVars, callVars>>

\* line 93
HandlerStripRateLimit ==
    /\ pc = "h_rate_limit"
    /\ content' = remove_rate_limit_blocks(content)
    /\ pc' = "h_cache"
    /\ UNCHANGED <<driverVars, fileVars, scanVars, callVars>>

\* line 94
HandlerStripCache ==
    /\ pc = "h_cache"
    /\ content' = remove_cache_blocks(content)
    /\ pc' = "h_compare"
    /\ UNCHANGED <<driverVars, fileVars, scanVars, callVars>>

\* lines 96-100
HandlerWrite ==
    /\ pc = "h_compare"
    /\ content # original
    /\ disk' = content
    /\ ret' = Append(ret, TRUE)
    /\ pc' = "h_returned"
    /\ UNCHANGED <<driverVars, content, original, run, scanVars, callVars>>

\* lines 101-103
HandlerNoChange ==
    /\ pc = "h_compare"
    /\ content = original
    /\ ret' = Append(ret, FALSE)
    /\ pc' = "h_returned"
    /\ UNCHANGED <<driverVars, content, original, disk, run, scanVars, callVars>>

\* the script is started again on the same file
HandlerRunAgain ==
    /\ pc = "h_returned"
    /\ run = 1
    /\ run' = 2
    /\ pc' = "h_open"
    /\ UNCHANGED <<driverVars, content, original, disk, ret, scanVars, callVars>>

NextHandler ==
    \/ HandlerRead
    \/ HandlerApplyInline
    \/ HandlerStripRateLimit
    \/ HandlerStripCache
    \/ HandlerWrite
    \/ HandlerNoChange
    \/ HandlerRunAgain

SpecHandler == InitHandler /\ [][NextHandler]_vars

---------------------------------------------------------------------------
(* The call rewriter of fix-zap-comprehensive.py *)

LOGGER == "logger."
LP == "("
RP == ")"

\* (Error|Warn|Info|Debug) of the pattern of line 161
Methods == {"Error", "Warn", "Info", "Debug"}

\* the string literals of the checked documents, by the text they quote
Lit ==
    ("started" :> "\"started\"") @@ ("error" :> "\"error\"") @@
    ("port" :> "\"port\"") @@ ("name" :> "\"name\"") @@
    ("req" :> "\"req\"") @@ ("8080" :> "\"8080\"")

StrLits == { Lit[k] : k \in DOMAIN Lit }

\* the text a string literal quotes
KeyOf(t) == CHOOSE k \in DOMAIN Lit : Lit[k] = t

\* tokens made of word characters only (\w+)
WordToks == {"err", "8080", "n", "true", "Error", "Warn", "Info", "Debug"}

FIELD_TYPES ==
    ("address" :> "String") @@ ("chain_id" :> "String") @@ ("contract" :> "String") @@
    ("cid" :> "String") @@ ("filename" :> "String") @@ ("name" :> "String") @@
    ("service_id" :> "String") @@ ("service_name" :> "String") @@ ("path" :> "String") @@
    ("method" :> "String") @@ ("from" :> "String") @@ ("to" :> "String") @@
    ("key" :> "String") @@ ("type" :> "String") @@ ("subject" :> "String") @@
    ("event_type" :> "String") @@ ("event_id" :> "String") @@ ("tx_hash" :> "String") @@
    ("function" :> "String") @@ ("mode" :> "String") @@ ("url" :> "String") @@
    ("version" :> "String") @@ ("rpc_url" :> "String") @@ ("host" :> "String") @@
    ("challenge_id" :> "String") @@ ("from_chain" :> "String") @@ ("alert_id" :> "String") @@
    ("signal" :> "String") @@ ("owner" :> "String") @@ ("token_id" :> "String") @@
    ("asset" :> "String") @@ ("amount" :> "String") @@ ("event" :> "String") @@
    ("from_block" :> "String") @@ ("to_block" :> "String") @@ ("value" :> "String") @@
    ("gas_limit" :> "String") @@ ("port" :> "Int") @@ ("count" :> "Int") @@
    ("size" :> "Int") @@ ("nonce" :> "Int") @@ ("failures" :> "Int") @@
    ("id" :> "Int64") @@ ("user_id" :> "Int64") @@ ("content_id" :> "Int64") @@
    ("block_number" :> "Int64") @@ ("duration" :> "Duration") @@ ("elapsed" :> "Duration") @@
    ("update_interval" :> "Duration") @@ ("success" :> "Bool") @@ ("is_owner" :> "Bool") @@
    ("has_nft" :> "Bool") @@ ("is_contract" :> "Bool") @@ ("error" :> "Error") @@
    ("message_length" :> "Int") @@ ("length" :> "Int") @@ ("expected" :> "String") @@
    ("gas_price_wei" :> "String") @@ ("gas_price" :> "String") @@ ("gas" :> "String") @@
    ("balance" :> "String")

\* FIELD_TYPES.get(key, 'String')
FieldTypeOf(key) == IF key \in DOMAIN FIELD_TYPES THEN FIELD_TYPES[key] ELSE "String"

\* 'zap.<Kind>('
ZapCtor(k) ==
    CASE k = "String" -> "zap.String("
      [] k = "Int" -> "zap.Int("
      [] k = "Int64" -> "zap.Int64("
      [] k = "Duration" -> "zap.Duration("
      [] k = "Bool" -> "zap.Bool("
      [] k = "Error" -> "zap.Error("

\* f'zap.<Kind>("{key}", {value})'
ZapField(k, key, value) == <<ZapCtor(k), Lit[key], COMMA, SP>> \o value \o <<RP>>

\* f'zap.Error({value})'
ZapError(value) == <<ZapCtor("Error")>> \o value \o <<RP>>

\* value.strip()
RECURSIVE Strip(_)
Strip(v) ==
    IF v = <<>> THEN v
    ELSE IF Head(v) \in WS THEN Strip(Tail(v))
    ELSE IF v[Len(v)] \in WS THEN Strip(SubSeq(v, 1, Len(v) - 1))
    ELSE v

\* re.match of the pattern of line 161 at s[i:]: the groups of the match.
\*   (logger\.(Error|Warn|Info|Debug))\(([^,]+),\s*("(?:[^"]|\\")*",\s*[^)]+)\)
\* group 1 is `logger.<Method>`, group 2 the method name inside it, group 3
\* the first argument, group 4 the remaining arguments.
ZapMatch(s, i) ==
    LET a == i + 3
        b == RunEnd(s, a, {COMMA}, FALSE)
        c == RunEnd(s, b + 1, WS, TRUE)
        e == RunEnd(s, c + 2, {RP}, FALSE)
        ok == /\ i + 2 <= Len(s)
              /\ s[i] = LOGGER /\ s[i + 1] \in Methods /\ s[i + 2] = LP
              /\ b > a /\ b <= Len(s) /\ s[b] = COMMA
              /\ c + 1 <= Len(s) /\ s[c] \in StrLits /\ s[c + 1] = COMMA
              /\ e > c + 2 /\ e <= Len(s) /\ s[e] = RP
    IN  IF ok
        THEN [ok |-> TRUE, end |-> e + 1,
              group |-> << SubSeq(s, i, i + 1), SubSeq(s, i + 1, i + 1),
                           SubSeq(s, a, b - 1), SubSeq(s, c, e - 1) >>]
        ELSE [ok |-> FALSE, end |-> 0, group |-> <<>>]

\* the start of the leftmost match at or after i, 0 when there is none
RECURSIVE ZapSearch(_, _)
ZapSearch(s, i) ==
    IF i > Len(s) THEN 0
    ELSE IF ZapMatch(s, i).ok THEN i
    ELSE ZapSearch(s, i + 1)

\* fix_logger_call, lines 90-92: what it reads from the match
ZapLoggerCall(m) == m.group[1]
ZapMessage(m) == m.group[2]
ZapRest(m) == m.group[3]

\* One iteration of `while current_pos < len(rest)` (lines 98-143).
\* The result is the new current_pos, the new pairs, and whether the loop
\* was left by `break`.
ParseStep(r, pos, ps) ==
    LET p == RunEnd(r, pos, {COMMA, SP, TAB, NL}, TRUE)           \* 100-101
        \* re.match(r'"error",\s*(\w+)', rest[current_pos:])     \* 109
        ew == RunEnd(r, p + 2, WS, TRUE)
        ee == RunEnd(r, ew, WordToks, TRUE)
        isErr == /\ r[p] = Lit["error"]
                 /\ p + 1 <= Len(r) /\ r[p + 1] = COMMA
                 /\ ee > ew
        \* re.match(r'"([^"]+)",\s*([^,)]+)', rest[current_pos:]) \* 116
        ve == RunEnd(r, p + 2, {COMMA, RP}, FALSE)
        isKv == /\ r[p] \in StrLits
                /\ p + 1 <= Len(r) /\ r[p + 1] = COMMA
                /\ ve > p + 2
        key == KeyOf(r[p])
        value == Strip(SubSeq(r, p + 2, ve - 1))
        field_type == FieldTypeOf(key)
        field ==
            IF value \in {<<"err">>, <<"error">>} /\ key = "error"  \* 125
            THEN ZapError(value)
            ELSE IF field_type = "String" /\ ~(value # <<>> /\ value[1] \in StrLits)
            THEN ZapField("String", key, value)                    \* 127
            ELSE IF field_type \in {"Int", "Int64", "Duration", "Bool"}
            THEN ZapField(field_type, key, value)                  \* 129-136
            ELSE ZapField("String", key, value)                    \* 138
    IN  IF p > Len(r)
        THEN [current_pos |-> p, pairs |-> ps, break |-> TRUE]     \* 103-104
        ELSE IF isErr
        THEN [current_pos |-> ee, break |-> FALSE,                 \* 110-113
              pairs |-> Append(ps, ZapError(SubSeq(r, ew, ee - 1)))]
        ELSE IF isKv
        THEN [current_pos |-> ve, break |-> FALSE,                 \* 117-140
              pairs |-> Append(ps, field)]
        ELSE [current_pos |-> p + 1, pairs |-> ps, break |-> FALSE] \* 143

\* ", ".join(ps)
RECURSIVE JoinComma(_)
JoinComma(ps) ==
    IF ps = <<>> THEN <<>>
    ELSE IF Len(ps) = 1 THEN ps[1]
    ELSE ps[1] \o <<COMMA, SP>> \o JoinComma(Tail(ps))

\* lines 146-149
Reconstruct(lc, msg, ps) ==
    IF ps # <<>>
    THEN lc \o <<LP>> \o msg \o <<COMMA, SP>> \o JoinComma(ps) \o <<RP>>
    ELSE lc \o <<LP>> \o msg \o <<RP>>

\* the while loop of lines 98-143, run to its end: the pairs it leaves
RECURSIVE ParseLoop(_, _, _)
ParseLoop(r, pos, ps) ==
    IF pos > Len(r) THEN ps
    ELSE LET st == ParseStep(r, pos, ps)
         IN  IF st.break THEN st.pairs ELSE ParseLoop(r, st.current_pos, st.pairs)

\* fix_logger_call(match), lines 88-149
fix_logger_call(m) ==
    Reconstruct(ZapLoggerCall(m), ZapMessage(m), ParseLoop(ZapRest(m), 1, <<>>))

\* re.sub(pattern, fix_logger_call, content) from position i on (line 163)
RECURSIVE ZapSubFrom(_, _)
ZapSubFrom(s, i) ==
    LET j == ZapSearch(s, i)
    IN  IF j = 0 THEN SubSeq(s, i, Len(s))
        ELSE SubSeq(s, i, j - 1) \o fix_logger_call(ZapMatch(s, j))
                 \o ZapSubFrom(s, ZapMatch(s, j).end)

\* lines 159-163 of fix_file: what it does to the text it read
ZapContent(c) == ZapSubFrom(c, 1)

---------------------------------------------------------------------------
(* The rewrites of fix_cmd_file (fix-cmd-logger.py, lines 13-54) *)

\* the texts the patterns and replacements of lines 14-52 name
CmdText ==
    [ IMPORTP |-> "import (",
      ZAPIMPORT |-> "\"go.uber.org/zap\"",
      LOGFATAL |-> "log.Fatal(",
      LOGINFO |-> "log.Info(",
      LOGERROR |-> "log.Error(",
      ZAPERROR |-> "zap.Error(",
      ZAPSTRING |-> "zap.String(",
      ZAPINT |-> "zap.Int(",
      ERRLIT |-> "\"error\"",
      MODELIT |-> "\"mode\"",
      SERVICELIT |-> "\"service\"",
      PORTLIT |-> "\"port\"",
      SIGNALLIT |-> "\"signal\"",
      MSGFAILED |-> "\"Failed to load config\"",
      MSGCONFIG |-> "\"Configuration loaded\"",
      MSGSTARTED |-> "\"Cache service started successfully\"",
      MSGSIGNAL |-> "\"Received shutdown signal\"",
      MSGSHUTDOWN |-> "\"Error during shutdown\"" ]

\* the string literals "([^"]+)" of line 23 can be
AnyMessage == {CmdText.MSGFAILED, CmdText.MSGCONFIG, CmdText.MSGSTARTED, CmdText.MSGSIGNAL, CmdText.MSGSHUTDOWN}
\* the string literals "([^"]+) started successfully" of line 37 can be
StartedMessage == {CmdText.MSGSTARTED}

\* A rewrite is a pattern, one set of tokens per position, and a
\* replacement, whose items are a literal token (ref = 0) or the token the
\* pattern matched at position ref (a group of the pattern).
T(t) == [tok |-> t, ref |-> 0]
G(k) == [tok |-> "", ref |-> k]

RuleMatches(pat, s, i) ==
    /\ i + Len(pat) - 1 <= Len(s)
    /\ \A k \in 1..Len(pat) : s[i + k - 1] \in pat[k]

Replacement(rep, s, i) ==
    [k \in 1..Len(rep) |-> IF rep[k].ref = 0 THEN rep[k].tok ELSE s[i + rep[k].ref - 1]]

\* re.sub(pattern, replacement, s) from position i on
RECURSIVE RewriteFrom(_, _, _)
RewriteFrom(rule, s, i) ==
    IF i > Len(s) THEN <<>>
    ELSE IF RuleMatches(rule.pat, s, i)
    THEN Replacement(rule.rep, s, i) \o RewriteFrom(rule, s, i + Len(rule.pat))
    ELSE <<s[i]>> \o RewriteFrom(rule, s, i + 1)

Rewrite(rule, s) == RewriteFrom(rule, s, 1)

\* lines 15-19: (import \(\n) -> \1\t"go.uber.org/zap"\n
AddZapImport ==
    [pat |-> <<{CmdText.IMPORTP}, {NL}>>,
     rep |-> <<G(1), G(2), T(TAB), T(CmdText.ZAPIMPORT), T(NL)>>]

\* lines 22-26: log.Fatal("<m>", "error", err) -> log.Fatal("<m>", zap.Error(err))
FixFatal ==
    [pat |-> <<{CmdText.LOGFATAL}, AnyMessage, {COMMA}, {SP}, {CmdText.ERRLIT}, {COMMA}, {SP}, {"err"}, {RP}>>,
     rep |-> <<G(1), G(2), T(COMMA), T(SP), T(CmdText.ZAPERROR), T("err"), T(RP), T(RP)>>]

\* lines 29-33
FixConfigLoaded ==
    [pat |-> <<{CmdText.LOGINFO}, {CmdText.MSGCONFIG}, {COMMA}, {SP}, {CmdText.MODELIT}, {COMMA}, {SP}, {"cfg.Mode"},
               {COMMA}, {SP}, {CmdText.SERVICELIT}, {COMMA}, {SP}, {"cfg.ServiceName"},
               {COMMA}, {SP}, {CmdText.PORTLIT}, {COMMA}, {SP}, {"cfg.Server.Port"}, {RP}>>,
     rep |-> <<G(1), G(2), T(COMMA), T(NL), T(TAB), T(TAB),
               T(CmdText.ZAPSTRING), T(CmdText.MODELIT), T(COMMA), T(SP), T("cfg.Mode"), T(RP), T(COMMA),
               T(NL), T(TAB), T(TAB),
               T(CmdText.ZAPSTRING), T(CmdText.SERVICELIT), T(COMMA), T(SP), T("cfg.ServiceName"), T(RP),
               T(COMMA), T(NL), T(TAB), T(TAB),
               T(CmdText.ZAPINT), T(CmdText.PORTLIT), T(COMMA), T(SP), T("cfg.Server.Port"), T(RP), T(RP)>>]

\* lines 36-40
FixStarted ==
    [pat |-> <<{CmdText.LOGINFO}, StartedMessage, {COMMA}, {SP}, {CmdText.PORTLIT}, {COMMA}, {SP},
               {"cfg.Server.Port"}, {RP}>>,
     rep |-> <<G(1), G(2), T(COMMA), T(SP), T(CmdText.ZAPINT), T(CmdText.PORTLIT), T(COMMA), T(SP),
               T("cfg.Server.Port"), T(RP), T(RP)>>]

\* lines 43-47
FixSignal ==
    [pat |-> <<{CmdText.LOGINFO}, {CmdText.MSGSIGNAL}, {COMMA}, {SP}, {CmdText.SIGNALLIT}, {COMMA}, {SP}, {"sig"}, {RP}>>,
     rep |-> <<G(1), G(2), T(COMMA), T(SP), T(CmdText.ZAPSTRING), T(CmdText.SIGNALLIT), T(COMMA), T(SP),
               T("sig.String()"), T(RP), T(RP)>>]

\* lines 50-54
FixShutdown ==
    [pat |-> <<{CmdText.LOGERROR}, {CmdText.MSGSHUTDOWN}, {COMMA}, {SP}, {CmdText.ERRLIT}, {COMMA}, {SP}, {"err"}, {RP}>>,
     rep |-> <<G(1), G(2), T(COMMA), T(SP), T(CmdText.ZAPERROR), T("err"), T(RP), T(RP)>>]

\* lines 13-54 of fix_cmd_file: what it does to the text it read
CmdPipeline(c) ==
    LET c1 == IF ~Contains(c, CmdText.ZAPIMPORT) THEN Rewrite(AddZapImport, c) ELSE c
        c2 == Rewrite(FixFatal, c1)
        c3 == Rewrite(FixConfigLoaded, c2)
        c4 == Rewrite(FixStarted, c3)
        c5 == Rewrite(FixSignal, c4)
    IN  Rewrite(FixShutdown, c5)

---------------------------------------------------------------------------
(* Specification SpecZap: fix_file of fix-zap-comprehensive.py on one      *)
(* file that holds a logging call logger.M(message, k1, v1, ..., kn, vn).  *)

MaxPairs == 2

ZapKeys == {"error", "port", "name", "req"}
ZapValues == { <<"err">>, <<"8080">>, <<Lit["8080"]>>, <<"n">>, <<"true">> }
ZapPairs == [key : ZapKeys, value : ZapValues]
\* what follows the pairs in the argument list: nothing, a key with no
\* value, an expression with no key
ZapTails == { <<>>, <<COMMA, SP, Lit["name"]>>, <<COMMA, SP, "n">> }
ZapCalls ==
    [method : {"Info", "Error"}, message : {<<Lit["started"]>>},
     pairs : SeqsUpTo(ZapPairs, MaxPairs), tail : ZapTails]

\* k1, v1, ..., kn, vn as source text, each preceded by ", "
RECURSIVE RenderPairs(_)
RenderPairs(ps) ==
    IF ps = <<>> THEN <<>>
    ELSE <<COMMA, SP, Lit[Head(ps).key], COMMA, SP>> \o Head(ps).value
             \o RenderPairs(Tail(ps))

\* the file: a statement, the call, a statement
RenderCall(c) ==
    <<TAB, STMT, NL, TAB, LOGGER, c.method, LP>> \o c.message \o RenderPairs(c.pairs)
        \o c.tail \o <<RP, NL, TAB, STMT, NL>>

InitZap ==
    /\ DriverIdle
    /\ pc = "z_open"
    /\ input_call \in ZapCalls
    /\ disk = RenderCall(input_call)
    /\ original = <<>>
    /\ content = <<>>
    /\ run = 1
    /\ ret = <<>>
    /\ scan_pos = 1
    /\ out = <<>>
    /\ logger_call = <<>>
    /\ message = <<>>
    /\ rest = <<>>
    /\ current_pos = 1
    /\ pairs = <<>>
    /\ ScanIdle

\* lines 154-157
ZapRead ==
    /\ pc = "z_open"
    /\ content' = disk
    /\ original' = disk
    /\ scan_pos' = 1
    /\ out' = <<>>
    /\ pc' = "z_sub"
    /\ UNCHANGED <<driverVars, disk, run, ret, input_call, logger_call, message, rest,
                   current_pos, pairs, scanVars>>

\* line 163, re.sub finds the next match and calls fix_logger_call
\* (lines 90-96)
ZapCallFound ==
    /\ pc = "z_sub"
    /\ ZapSearch(content, scan_pos) # 0
    /\ LET i == ZapSearch(content, scan_pos)
           m == ZapMatch(content, i)
       IN  /\ out' = out \o SubSeq(content, scan_pos, i - 1)
           /\ scan_pos' = m.end
           /\ logger_call' = ZapLoggerCall(m)
           /\ message' = ZapMessage(m)
           /\ rest' = ZapRest(m)
    /\ pairs' = <<>>
    /\ current_pos' = 1
    /\ pc' = "z_parse"
    /\ UNCHANGED <<driverVars, content, fileVars, input_call, scanVars>>

\* lines 98-143, one iteration that goes round the loop again
ZapParse ==
    /\ pc = "z_parse"
    /\ current_pos <= Len(rest)
    /\ LET st == ParseStep(rest, current_pos, pairs)
       IN  /\ current_pos' = st.current_pos
           /\ pairs' = st.pairs
           /\ pc' = IF st.break THEN "z_reconstruct" ELSE "z_parse"
    /\ UNCHANGED <<driverVars, content, fileVars, input_call, scan_pos, out, logger_call,
                   message, rest, scanVars>>

\* line 98, the loop condition fails
ZapParseEnd ==
    /\ pc = "z_parse"
    /\ current_pos > Len(rest)
    /\ pc' = "z_reconstruct"
    /\ UNCHANGED <<driverVars, content, fileVars, callVars, scanVars>>

\* lines 146-149: the replacement text goes into the result of re.sub
ZapReconstruct ==
    /\ pc = "z_reconstruct"
    /\ out' = out \o Reconstruct(logger_call, message, pairs)
    /\ pc' = "z_sub"
    /\ UNCHANGED <<driverVars, content, fileVars, input_call, scan_pos, logger_call, message,
                   rest, current_pos, pairs, scanVars>>

\* line 163, no further match: re.sub returns
ZapSubDone ==
    /\ pc = "z_sub"
    /\ ZapSearch(content, scan_pos) = 0
    /\ content' = out \o SubSeq(content, scan_pos, Len(content))
    /\ pc' = "z_compare"
    /\ UNCHANGED <<driverVars, fileVars, callVars, scanVars>>

\* lines 166-169
ZapWrite ==
    /\ pc = "z_compare"
    /\ content # original
    /\ disk' = content
    /\ ret' = Append(ret, TRUE)
    /\ pc' = "z_returned"
    /\ UNCHANGED <<driverVars, content, original, run, callVars, scanVars>>

\* line 170
ZapNoChange ==
    /\ pc = "z_compare"
    /\ content = original
    /\ ret' = Append(ret, FALSE)
    /\ pc' = "z_returned"
    /\ UNCHANGED <<driverVars, content, original, disk, run, callVars, scanVars>>

NextZap ==
    \/ ZapRead
    \/ ZapCallFound
    \/ ZapParse
    \/ ZapParseEnd
    \/ ZapReconstruct
    \/ ZapSubDone
    \/ ZapWrite
    \/ ZapNoChange

SpecZap == InitZap /\ [][NextZap]_vars

---------------------------------------------------------------------------
(* Specification SpecDriver: one run of a script over its worklist.        *)
(*                                                                         *)
(* "all_handlers" is the __main__ of fix-all-handlers.py with              *)
(* fix_handler_file, "cmd_logger" the main of fix-cmd-logger.py with       *)
(* fix_cmd_file, "zap_comprehensive" the main of fix-zap-comprehensive.py  *)
(* with fix_file.  A path of the file system is missing, or holds a text   *)
(* and opens without error ("none"), raises when opened for reading        *)
(* ("read_error") or raises when opened for writing ("write_error").       *)

NFiles == 3

Paths == 1..NFiles

AllHandlersDocs ==
    { <<STMT, NL>>, <<STMT, NL, TAB, HandlerText.STARTTIME, NL, STMT, NL>> }

CmdLoggerDocs ==
    { <<CmdText.IMPORTP, NL, TAB, CmdText.ZAPIMPORT, NL, RP, NL>>,
      <<CmdText.IMPORTP, NL, RP, NL, TAB, CmdText.LOGFATAL, CmdText.MSGFAILED, COMMA, SP, CmdText.ERRLIT, COMMA, SP, "err", RP, NL>> }

ZapDocs ==
    { <<TAB, STMT, NL>>,
      RenderCall([method |-> "Error", message |-> <<Lit["started"]>>,
                  pairs |-> << [key |-> "error", value |-> <<"err">>] >>,
                  tail |-> <<>>]) }

FileStates(docs) ==
    [text : docs, fault : {"none", "read_error", "write_error"}]
        \cup { [text |-> <<>>, fault |-> "missing"] }

\* list(base_dir.glob(...)): the paths that exist, in the order of the listing
RECURSIVE Glob(_, _)
Glob(f, p) ==
    IF p > NFiles THEN <<>>
    ELSE (IF f[p].fault # "missing" THEN <<p>> ELSE <<>>) \o Glob(f, p + 1)

InitDriver ==
    /\ ScanIdle
    /\ CallIdle
    /\ FileIdle
    /\ pc = "d_next"
    /\ content = <<>>
    /\ driver \in {"all_handlers", "cmd_logger", "zap_comprehensive"}
    /\ fs \in [Paths -> FileStates(CASE driver = "all_handlers" -> AllHandlersDocs
                                     [] driver = "cmd_logger" -> CmdLoggerDocs
                                     [] OTHER -> ZapDocs)]
    /\ files = IF driver = "zap_comprehensive" THEN Glob(fs, 1) ELSE [p \in Paths |-> p]
    /\ fidx = 1
    /\ outcome = [p \in Paths |-> "pending"]
    /\ delta = [p \in Paths |-> "unread"]
    /\ wrote = [p \in Paths |-> <<>>]
    /\ fixed = 0
    /\ exit_code = -1

\* the worklist entry the loop is at
AtEntry == pc = "d_next" /\ fidx <= Len(files)
Path == files[fidx]

\* content != original
Changed(o, c) == IF c # o THEN "changed" ELSE "same"

driverIdleFile == <<disk, run, ret>>

\* with open(filepath, 'r') as f: content = f.read() ; original = content
ReadFile ==
    /\ content' = fs[Path].text
    /\ original' = fs[Path].text
    /\ outcome' = [outcome EXCEPT ![Path] = "read"]
    /\ pc' = "d_fix"
    /\ UNCHANGED <<driver, files, fidx, fs, delta, wrote, fixed, exit_code,
                   driverIdleFile, scanVars, callVars>>

\* with open(filepath, 'w') as f: f.write(content)
WriteFile ==
    /\ fs' = [fs EXCEPT ![Path].text = content]
    /\ wrote' = [wrote EXCEPT ![Path] = content]
    /\ outcome' = [outcome EXCEPT ![Path] = "written"]
    /\ delta' = [delta EXCEPT ![Path] = Changed(original, content)]

\* the loop goes to the next worklist entry
NextEntry ==
    /\ fidx' = fidx + 1
    /\ pc' = "d_next"

\* the process ends with the given status
Exit(status) ==
    /\ exit_code' = status
    /\ pc' = "d_exit"

(* fix-all-handlers.py *)

AH_Open ==
    /\ driver = "all_handlers" /\ AtEntry
    /\ fs[Path].fault \notin {"missing", "read_error"}
    /\ ReadFile

\* open raises (FileNotFoundError for a missing path): except Exception, sys.exit(1)
AH_OpenFails ==
    /\ driver = "all_handlers" /\ AtEntry
    /\ fs[Path].fault \in {"missing", "read_error"}
    /\ outcome' = [outcome EXCEPT ![Path] = "read_error"]
    /\ Exit(1)
    /\ UNCHANGED <<driver, files, fidx, fs, delta, wrote, fixed, content, original,
                   driverIdleFile, scanVars, callVars>>

AH_Fix ==
    /\ driver = "all_handlers" /\ pc = "d_fix"
    /\ content' = HandlerPipeline(content)
    /\ pc' = "d_compare"
    /\ UNCHANGED <<driverVars, original, driverIdleFile, scanVars, callVars>>

AH_Write ==
    /\ driver = "all_handlers" /\ pc = "d_compare"
    /\ content # original
    /\ fs[Path].fault # "write_error"
    /\ WriteFile
    /\ fixed' = fixed + 1
    /\ NextEntry
    /\ UNCHANGED <<driver, files, exit_code, content, original,
                   driverIdleFile, scanVars, callVars>>

\* a variant of the write failure in which the except clause does not exit
AH_WriteFails_Continues ==
    /\ driver = "all_handlers" /\ pc = "d_compare"
    /\ content # original
    /\ fs[Path].fault = "write_error"
    /\ outcome' = [outcome EXCEPT ![Path] = "write_error"]
    /\ delta' = [delta EXCEPT ![Path] = Changed(original, content)]
    /\ NextEntry
    /\ UNCHANGED <<driver, files, fs, wrote, fixed, exit_code, content, original,
                   driverIdleFile, scanVars, callVars>>

AH_WriteFails ==
    /\ driver = "all_handlers" /\ pc = "d_compare"
    /\ content # original
    /\ fs[Path].fault = "write_error"
    /\ outcome' = [outcome EXCEPT ![Path] = "write_error"]
    /\ delta' = [delta EXCEPT ![Path] = Changed(original, content)]
    /\ Exit(1)
    /\ UNCHANGED <<driver, files, fidx, fs, wrote, fixed, content, original,
                   driverIdleFile, scanVars, callVars>>

\* a variant of the else branch that writes the file although nothing changed
AH_NoChange_Rewrites ==
    /\ driver = "all_handlers" /\ pc = "d_compare"
    /\ content = original
    /\ fs[Path].fault # "write_error"
    /\ WriteFile
    /\ NextEntry
    /\ UNCHANGED <<driver, files, fixed, exit_code, content, original,
                   driverIdleFile, scanVars, callVars>>

AH_NoChange ==
    /\ driver = "all_handlers" /\ pc = "d_compare"
    /\ content = original
    /\ outcome' = [outcome EXCEPT ![Path] = "unchanged"]
    /\ delta' = [delta EXCEPT ![Path] = Changed(original, content)]
    /\ NextEntry
    /\ UNCHANGED <<driver, files, fs, wrote, fixed, exit_code, content, original,
                   driverIdleFile, scanVars, callVars>>

AH_Done ==
    /\ driver = "all_handlers" /\ pc = "d_next" /\ fidx > Len(files)
    /\ Exit(0)
    /\ UNCHANGED <<driver, files, fidx, fs, outcome, delta, wrote, fixed, content, original,
                   driverIdleFile, scanVars, callVars>>

(* fix-cmd-logger.py *)

\* a variant of main without the Path.exists test: open raises, status 1
CL_NotFound_Aborts ==
    /\ driver = "cmd_logger" /\ AtEntry
    /\ fs[Path].fault = "missing"
    /\ outcome' = [outcome EXCEPT ![Path] = "read_error"]
    /\ Exit(1)
    /\ UNCHANGED <<driver, files, fidx, fs, delta, wrote, fixed, content, original,
                   driverIdleFile, scanVars, callVars>>

\* Path(filepath).exists() is false: print "Not found"
CL_NotFound ==
    /\ driver = "cmd_logger" /\ AtEntry
    /\ fs[Path].fault = "missing"
    /\ outcome' = [outcome EXCEPT ![Path] = "missing"]
    /\ NextEntry
    /\ UNCHANGED <<driver, files, fs, delta, wrote, fixed, exit_code, content, original,
                   driverIdleFile, scanVars, callVars>>

CL_Open ==
    /\ driver = "cmd_logger" /\ AtEntry
    /\ fs[Path].fault \notin {"missing", "read_error"}
    /\ ReadFile

\* open raises and nothing catches it: the interpreter ends with status 1
CL_OpenFails ==
    /\ driver = "cmd_logger" /\ AtEntry
    /\ fs[Path].fault = "read_error"
    /\ outcome' = [outcome EXCEPT ![Path] = "read_error"]
    /\ Exit(1)
    /\ UNCHANGED <<driver, files, fidx, fs, delta, wrote, fixed, content, original,
                   driverIdleFile, scanVars, callVars>>

CL_Fix ==
    /\ driver = "cmd_logger" /\ pc = "d_fix"
    /\ content' = CmdPipeline(content)
    /\ pc' = "d_compare"
    /\ UNCHANGED <<driverVars, original, driverIdleFile, scanVars, callVars>>

\* no comparison: the file is written whatever the rewrites did
CL_Write ==
    /\ driver = "cmd_logger" /\ pc = "d_compare"
    /\ fs[Path].fault # "write_error"
    /\ WriteFile
    /\ NextEntry
    /\ UNCHANGED <<driver, files, fixed, exit_code, content, original,
                   driverIdleFile, scanVars, callVars>>

CL_WriteFails ==
    /\ driver = "cmd_logger" /\ pc = "d_compare"
    /\ fs[Path].fault = "write_error"
    /\ outcome' = [outcome EXCEPT ![Path] = "write_error"]
    /\ delta' = [delta EXCEPT ![Path] = Changed(original, content)]
    /\ Exit(1)
    /\ UNCHANGED <<driver, files, fidx, fs, wrote, fixed, content, original,
                   driverIdleFile, scanVars, callVars>>

CL_Done ==
    /\ driver = "cmd_logger" /\ pc = "d_next" /\ fidx > Len(files)
    /\ Exit(0)
    /\ UNCHANGED <<driver, files, fidx, fs, outcome, delta, wrote, fixed, content, original,
                   driverIdleFile, scanVars, callVars>>

(* fix-zap-comprehensive.py *)

ZC_Open ==
    /\ driver = "zap_comprehensive" /\ AtEntry
    /\ fs[Path].fault # "read_error"
    /\ ReadFile

\* open raises inside the try of fix_file: printed, return False, "No changes"
ZC_OpenFails ==
    /\ driver = "zap_comprehensive" /\ AtEntry
    /\ fs[Path].fault = "read_error"
    /\ outcome' = [outcome EXCEPT ![Path] = "read_error"]
    /\ NextEntry
    /\ UNCHANGED <<driver, files, fs, delta, wrote, fixed, exit_code, content, original,
                   driverIdleFile, scanVars, callVars>>

ZC_Fix ==
    /\ driver = "zap_comprehensive" /\ pc = "d_fix"
    /\ content' = ZapContent(content)
    /\ pc' = "d_compare"
    /\ UNCHANGED <<driverVars, original, driverIdleFile, scanVars, callVars>>

ZC_Write ==
    /\ driver = "zap_comprehensive" /\ pc = "d_compare"
    /\ content # original
    /\ fs[Path].fault # "write_error"
    /\ WriteFile
    /\ fixed' = fixed + 1
    /\ NextEntry
    /\ UNCHANGED <<driver, files, exit_code, content, original,
                   driverIdleFile, scanVars, callVars>>

\* open for writing raises inside the try of fix_file: printed, return False
ZC_WriteFails ==
    /\ driver = "zap_comprehensive" /\ pc = "d_compare"
    /\ content # original
    /\ fs[Path].fault = "write_error"
    /\ outcome' = [outcome EXCEPT ![Path] = "write_error"]
    /\ delta' = [delta EXCEPT ![Path] = Changed(original, content)]
    /\ NextEntry
    /\ UNCHANGED <<driver, files, fs, wrote, fixed, exit_code, content, original,
                   driverIdleFile, scanVars, callVars>>

ZC_NoChange ==
    /\ driver = "zap_comprehensive" /\ pc = "d_compare"
    /\ content = original
    /\ outcome' = [outcome EXCEPT ![Path] = "unchanged"]
    /\ delta' = [delta EXCEPT ![Path] = Changed(original, content)]
    /\ NextEntry
    /\ UNCHANGED <<driver, files, fs, wrote, fixed, exit_code, content, original,
                   driverIdleFile, scanVars, callVars>>

ZC_Done ==
    /\ driver = "zap_comprehensive" /\ pc = "d_next" /\ fidx > Len(files)
    /\ Exit(0)
    /\ UNCHANGED <<driver, files, fidx, fs, outcome, delta, wrote, fixed, content, original,
                   driverIdleFile, scanVars, callVars>>

NextDriver ==
    \/ AH_Open \/ AH_OpenFails \/ AH_Fix \/ AH_Write \/ AH_WriteFails \/ AH_NoChange \/ AH_Done
    \/ CL_NotFound \/ CL_Open \/ CL_OpenFails \/ CL_Fix \/ CL_Write \/ CL_WriteFails \/ CL_Done
    \/ ZC_Open \/ ZC_OpenFails \/ ZC_Fix \/ ZC_Write \/ ZC_WriteFails \/ ZC_NoChange \/ ZC_Done

SpecDriver == InitDriver /\ [][NextDriver]_vars

---------------------------------------------------------------------------
(* What the block-balance property asks of a block scan *)

\* the text is brace-balanced: no prefix closes more than it opened, and
\* everything opened is closed
RECURSIVE DepthOk(_, _)
DepthOk(s, d) ==
    IF s = <<>> THEN d = 0
    ELSE LET d2 == d + (IF Head(s) = LB THEN 1 ELSE 0) - (IF Head(s) = RB THEN 1 ELSE 0)
         IN  d2 >= 0 /\ DepthOk(Tail(s), d2)

Balanced(c) == DepthOk(c, 0)

\* walking the tokens of `line` at depth d: the depth after it, and whether
\* the brace that closes the block was met on it
RECURSIVE WalkLine(_, _, _)
WalkLine(line, d, opened) ==
    IF line = <<>> THEN [depth |-> d, opened |-> opened, closed |-> FALSE]
    ELSE IF Head(line) = LB THEN WalkLine(Tail(line), d + 1, TRUE)
    ELSE IF Head(line) = RB
    THEN IF opened /\ d - 1 = 0
         THEN [depth |-> 0, opened |-> TRUE, closed |-> TRUE]
         ELSE WalkLine(Tail(line), d - 1, opened)
    ELSE WalkLine(Tail(line), d, opened)

\* the index in ls of the line holding the brace that matches the first
\* open brace of the block that ls[1] opens (Len(ls) if there is none)
RECURSIVE CloseLine(_, _, _, _)
CloseLine(ls, i, d, opened) ==
    IF i > Len(ls) THEN Len(ls)
    ELSE LET w == WalkLine(ls[i], d, opened)
         IN  IF w.closed THEN i ELSE CloseLine(ls, i + 1, w.depth, w.opened)

\* the lines left when every matched block, opening line through the line
\* of its matching close, is removed and nothing else is
RECURSIVE ExpectedStrip(_, _)
ExpectedStrip(k, ls) ==
    IF ls = <<>> THEN <<>>
    ELSE IF IsOpener(k, Head(ls))
    THEN ExpectedStrip(k, SubSeq(ls, CloseLine(ls, 1, 0, FALSE) + 1, Len(ls)))
    ELSE <<Head(ls)>> \o ExpectedStrip(k, Tail(ls))

\* C1: block balance.  For brace-balanced input, the scan returns the input
\* without the lines of each matched block (opening line through the line
\* of its matching close brace) and with every other line, also when
\* openers of the same kind are nested inside a removed block.
C1_BlockBalance ==
    (pc = "strip_done" /\ Balanced(content))
        => result = Join(ExpectedStrip(kind, Split(content)))

\* C10: self-closing opener.  When the scan, not erasing, meets an opening
\* line with as many open as close braces, it removes that line alone: it
\* is not erasing at the next line, which is emitted unless it is an
\* opening line itself.
C10_SelfClosingOpener ==
    ( /\ pc = "strip_loop"
      /\ idx >= 3
      /\ ~ScanFrom(kind, ScanInit, SubSeq(lines, 1, idx - 3)).skip
      /\ IsOpener(kind, lines[idx - 2])
      /\ Balance(lines[idx - 2]) = 0
      /\ ~IsOpener(kind, lines[idx - 1]) )
        => ( /\ ~skip
             /\ new_lines # <<>>
             /\ new_lines[Len(new_lines)] = lines[idx - 1] )

\* the scan state after the first n lines
ScanAfter(n) == ScanFrom(kind, ScanInit, SubSeq(lines, 1, n))

\* line k opens the block that is still being erased at the end of the
\* input: the scan was not erasing before it and is erasing after every
\* line from it on
OpenAtEof(k) ==
    /\ IsOpener(kind, lines[k])
    /\ ~ScanAfter(k - 1).skip
    /\ \A j \in k..Len(lines) : ScanAfter(j).skip

\* C13: unbalanced block at the end of the input.  When the scan has gone
\* through the last line and is still erasing, it returns, without error,
\* exactly the lines it had emitted before the line that opened the block:
\* every line from that opening line to the end of the input is dropped.
C13_UnbalancedAtEof ==
    (pc = "strip_done" /\ skip)
        => \E k \in 1..Len(lines) :
              /\ OpenAtEof(k)
              /\ result = Join(ScanAfter(k - 1).new_lines)
              /\ Len(new_lines) <= k - 1

\* a scan has returned while erasing, with lines kept before the opening
\* line and lines dropped after it
C13_Witness ==
    /\ pc = "strip_done" /\ skip /\ brace_count > 0
    /\ result # <<>> /\ result = Join(new_lines)
    /\ \E k \in 2..(Len(lines) - 1) : OpenAtEof(k)

---------------------------------------------------------------------------
(* Idempotence and non-erasure of fix_handler_file *)

\* C3: idempotence.  The second run of fix_handler_file over a file, which
\* reads what the first run left, changes nothing: it returns False (no
\* change reported) and the file keeps the text of the first run.
C3_Idempotence ==
    (pc = "h_returned" /\ run = 2) => (ret[2] = FALSE /\ disk = original)

\* the texts the erase rules of lines 59-90 name
EraseTexts ==
    { HandlerText.SECIMPORT, HandlerText.OPTIMPORT, HandlerText.TIMEIMPORT, HandlerText.RLFIELD, HandlerText.ALFIELD, HandlerText.CACHEFIELD, HandlerText.LCFIELD,
      HandlerText.RLNEW, HandlerText.ALNEW, HandlerText.CACHENEW, HandlerText.LCNEW, HandlerText.STARTTIME, HandlerText.CLIENTIP, HandlerText.AUDITH, HandlerText.AUDITP,
      HandlerText.TIMERH, HandlerText.TIMERP, HandlerText.CSTOPH, HandlerText.CSTOPP, HandlerText.CSETH, HandlerText.CSETP, HandlerText.IFPCACHE }

\* an input line that no rule is about: it is not blank (a blank line before
\* an erased line is part of that rule's \s+) and holds no text an erase
\* rule names
UnrelatedLine(line) == line # <<>> /\ \A i \in 1..Len(line) : line[i] \notin EraseTexts

\* the input lines outside every matched block that no rule is about
Unrelated(ls) ==
    SelectSeq(ExpectedStrip("cache", ExpectedStrip("rate_limit", ls)), UnrelatedLine)

\* a is a subsequence of b
RECURSIVE IsSubseq(_, _)
IsSubseq(a, b) ==
    IF a = <<>> THEN TRUE
    ELSE IF b = <<>> THEN FALSE
    ELSE IF Head(a) = Head(b) THEN IsSubseq(Tail(a), Tail(b))
    ELSE IsSubseq(a, Tail(b))

\* C8: non-erasure of unrelated lines.  After the inline rules and the two
\* block scans of fix_handler_file, every input line that is outside the
\* matched blocks and matched by no erase rule is a line of the output,
\* unchanged, in the original order.
C8_NonErasure ==
    (pc = "h_compare" /\ run = 1)
        => IsSubseq(Unrelated(Split(original)), Split(content))

---------------------------------------------------------------------------
(* The worklist drivers: what is written, what stops the run *)

\* a write of the file at path p was made (it went through or it raised)
WriteMade(p) == outcome[p] \in {"written", "write_error"}

MissingEntry(i) == fs[files[i]].fault = "missing"

\* the run has ended with a non-zero status at worklist entry i
StoppedAt(i) == pc = "d_exit" /\ exit_code = 1 /\ fidx = i

\* entry i was reported as missing and skipped, and the run did not end at it
SkippedIfMissing(i) ==
    /\ fidx > i => outcome[files[i]] = "missing"
    /\ ~StoppedAt(i)

IoFailure(i) == outcome[files[i]] \in {"read_error", "write_error"}

\* the run ended at entry i with a non-zero status, nothing after it touched
Fatal(i) ==
    /\ StoppedAt(i)
    /\ \A j \in (i + 1)..Len(files) :
           outcome[files[j]] = "pending" /\ wrote[files[j]] = <<>>

\* what was written is what the file holds
NoRollback == \A p \in Paths : outcome[p] = "written" => fs[p].text = wrote[p]

---------------------------------------------------------------------------
(* What the call rewriter is to make of logger.M(message, k1, v1, ...) *)

Kinds == {"String", "Int", "Int64", "Bool", "Duration", "Error"}

\* a occurs in b as a run of consecutive tokens
IsInfix(a, b) ==
    \E i \in 0..(Len(b) - Len(a)) : SubSeq(b, i + 1, i + Len(a)) = a

\* the structured fields that are built from the pair (key, value)
FieldsOf(key, value) ==
    { ZapField(k, key, value) : k \in Kinds \ {"Error"} } \cup { ZapError(value) }

\* text is ", f1, ..., fn" with fi a field built from ps[i]
RECURSIVE FieldsInOrder(_, _)
FieldsInOrder(text, ps) ==
    IF ps = <<>> THEN text = <<>>
    ELSE \E f \in FieldsOf(Head(ps).key, Head(ps).value) :
            /\ Len(text) >= Len(f) + 2
            /\ SubSeq(text, 1, Len(f) + 2) = <<COMMA, SP>> \o f
            /\ FieldsInOrder(SubSeq(text, Len(f) + 3, Len(text)), Tail(ps))

\* the file up to and with the message argument of the call, and after the
\* arguments of the call
CallHead(c) == <<TAB, STMT, NL, TAB, LOGGER, c.method, LP>> \o c.message
CallTail == <<RP, NL, TAB, STMT, NL>>

\* C6: call rewrite shape.  When fix_file rewrites logger.M(message, k1, v1,
\* ..., kn, vn), the result is logger.M with the message unchanged as first
\* argument, followed by exactly n fields, the i-th built from (ki, vi), in
\* the input order; the text around the call is unchanged.
C6_CallShape ==
    (pc = "z_compare" /\ input_call.pairs # <<>> /\ input_call.tail = <<>>)
        => LET h == CallHead(input_call)
               n == Len(content)
           IN  /\ n >= Len(h) + Len(CallTail)
               /\ SubSeq(content, 1, Len(h)) = h
               /\ SubSeq(content, n - Len(CallTail) + 1, n) = CallTail
               /\ FieldsInOrder(SubSeq(content, Len(h) + 1, n - Len(CallTail)),
                                input_call.pairs)

\* C5: error-key priority.  For every pair whose key is "error", whatever
\* its value, the rewritten call holds zap.Error(value), and no field of
\* another kind is made for the key "error".
C5_ErrorKey ==
    (pc = "z_compare")
        => \A i \in DOMAIN input_call.pairs :
              input_call.pairs[i].key = "error"
                  => /\ IsInfix(ZapError(input_call.pairs[i].value), content)
                     /\ \A k \in Kinds \ {"Error"} :
                            ~IsInfix(<<ZapCtor(k), Lit["error"]>>, content)

\* C7: table over shape.  For every pair whose key is not "error" and is in
\* FIELD_TYPES, the rewritten call holds the field of the table's kind for
\* it, whatever the shape of the value (a quoted string under an Int key is
\* zap.Int(key, value)).
C7_TableOverShape ==
    (pc = "z_compare")
        => \A i \in DOMAIN input_call.pairs :
              LET p == input_call.pairs[i]
              IN  (p.key # "error" /\ p.key \in DOMAIN FIELD_TYPES)
                      => IsInfix(ZapField(FIELD_TYPES[p.key], p.key, p.value), content)


\* the literal shapes of a value
DigitToks == {"8080"}
BoolToks == {"true", "false"}
DurationToks == {"time.Second", "time.Millisecond"}

\* the kind the literal text of a value gives
ShapeKind(value) ==
    IF Len(value) = 1 /\ value[1] \in StrLits THEN "String"
    ELSE IF Len(value) = 1 /\ value[1] \in DigitToks THEN "Int"
    ELSE IF Len(value) = 1 /\ value[1] \in BoolToks THEN "Bool"
    ELSE IF \E i \in 1..Len(value) : value[i] \in DurationToks THEN "Duration"
    ELSE "String"

\* C11: shape fallback for unknown keys.  For every pair whose key is not
\* "error" and not in FIELD_TYPES, the rewritten call holds the field of the
\* kind that the literal text of the value gives: String for a quoted
\* literal, Int for an all-digit literal, Bool for true/false, Duration for
\* a value with a duration-unit token, String for anything else.
C11_ShapeFallback ==
    (pc = "z_compare")
        => \A i \in DOMAIN input_call.pairs :
              LET p == input_call.pairs[i]
              IN  (p.key # "error" /\ p.key \notin DOMAIN FIELD_TYPES)
                      => IsInfix(ZapField(ShapeKind(p.value), p.key, p.value), content)

\* C12: unparsable arguments are kept.  When the argument list of a matched
\* call ends with a key that has no value, or with a segment that is no
\* "key", value pair, the rewritten call still holds that segment's source
\* text, unchanged and in its place, before the closing parenthesis; no
\* argument text is dropped.
C12_UnparsableKept ==
    (pc = "z_compare" /\ input_call.pairs # <<>> /\ input_call.tail # <<>>)
        => IsInfix(input_call.tail \o CallTail, content)

---------------------------------------------------------------------------
(* What a block scan returns, whatever the input *)

\* the line holds the text that opens a block of the kind the scan removes
SatisfiesOpening(k, line) ==
    \/ /\ k \in {"rate_limit", "v2"}
       /\ \E i \in 1..Len(line) :
              line[i] \in {"if !h.rateLimiter.Allow(", "if !p.rateLimiter.Allow("}
    \/ /\ k \in {"cache", "v2"}
       /\ \E i \in 1..Len(line) : line[i] = "if cached, ok := h.cache.Get("

\* the lines of the returned text (the empty text has none)
OutputLines == IF result = <<>> THEN <<>> ELSE Split(result)

\* C14: for every input, balanced or not, no line of the text a block scan
\* returns satisfies the opening test of that scan (neither rate-limit
\* opener after the rate-limit scan, no cache opener after the cache scan,
\* none of the three after the scan of fix-handlers-v2), and the lines
\* returned are a subsequence of the input lines.
C14_NoOpenerLeft ==
    (pc \in {"strip_done", "v2_done"})
        => /\ \A i \in 1..Len(OutputLines) : ~SatisfiesOpening(kind, OutputLines[i])
           /\ IsSubseq(OutputLines, Split(content))

\* the scan of fix-handlers-v2 has removed a rate-limit opener and a cache
\* opener from an input and returned some of its lines
C14_Witness ==
    /\ pc = "v2_done"
    /\ result # <<>>
    /\ \E i, j \in 1..Len(lines) :
           /\ SatisfiesOpening("rate_limit", lines[i])
           /\ SatisfiesOpening("cache", lines[j])
    /\ Len(OutputLines) < Len(lines)

\* C15: for every input, the single scan of fix-handlers-v2 returns the
\* text that the two scans of fix-all-handlers return when chained,
\* remove_cache_blocks(remove_rate_limit_blocks(text)).
C15_SingleScanIsChain ==
    (pc = "v2_done")
        => result = remove_cache_blocks(remove_rate_limit_blocks(content))

===========================================================================
